---- MODULE Spec2Model ----
(***************************************************************************)
(* Model of SessionManager (sessionManager.ts, carried in                  *)
(* src/src/websocket.ts lines 123-916): sessions, the admission semaphore  *)
(* (activeAgentCount / slotQueue), the per-session stream registry         *)
(* (activeStreams), runAgentSession as a coroutine, and the engine stream. *)
(*                                                                         *)
(* Scheduling follows the Node.js event loop.  Code between two awaits is  *)
(* one atomic step.  A continuation whose promise was settled by this      *)
(* program (the fast path of acquireAgentSlot, a waiter resolved by        *)
(* releaseAgentSlot, reqPrompt, the return of controller.cancel) is a      *)
(* microtask: it is appended to the FIFO `microtasks`, and no request      *)
(* handler and no engine I/O completion runs while that queue is non-empty.*)
(* The awaits on the engine (thread.runStreamed, the stream's next() and   *)
(* return()) are settled by I/O, at any later quiescent moment.            *)
(***************************************************************************)
EXTENDS Integers, Sequences, FiniteSets, TLC

\* ---- bounds of the model
MaxSessions  == 3   \* createSession calls
DeepSessions == 1   \* createSession calls in a behaviour whose streams yield items
MaxRuns      == 3   \* runAgentSession invocations that reach acquireAgentSlot
MaxItems     == 2   \* stream items delivered by the engine, over all runs
MaxAgents    == 2   \* AGENT_MAX_CONCURRENCY ranges over 1..MaxAgents
MaxThreads   == 2   \* distinct thread ids the engine may report
MaxRemovals  == 1   \* removeSession calls suspended in controller.cancel()
MaxSockets   == 3   \* WebSocket connections accepted by the upgrade handler
MaxSets      == 2   \* Set objects created by registerClient
WatchedRuns  == 1   \* runAgentSession invocations in a behaviour with subscribers

\* A behaviour is explored within one of these budgets: many sessions whose streams
\* end without items, fewer sessions whose streams yield items, or a session with
\* subscribers whose stream ends without items.
Budgets == {[sessions |-> MaxSessions,  runs |-> MaxRuns, items |-> 0, sockets |-> 0],
            [sessions |-> DeepSessions, runs |-> MaxRuns, items |-> MaxItems, sockets |-> 0],
            [sessions |-> DeepSessions, runs |-> WatchedRuns, items |-> 0,
             sockets |-> MaxSockets]}

SessionIds == 1..MaxSessions
RunIds     == 1..MaxRuns
ThreadIds  == 1..MaxThreads
RemovalIds == 1..MaxRemovals
SocketIds  == 1..MaxSockets
SetIds     == 1..MaxSets

VARIABLES
    budget,               \* the budget of this behaviour (not program state)
    maxConcurrentAgents,  \* readonly field, fixed at construction
    sessions,             \* keys of the Map `sessions`
    session,              \* the Session objects, by id (kept after Map.delete)
    activeStreams,        \* Map sessionId -> controller (the run that made it), 0 = absent
    activeAgentCount,
    slotQueue,            \* resolvers of suspended acquireAgentSlot calls (run ids)
    run,                  \* runAgentSession invocations
    removal,              \* removeSession invocations suspended in controller.cancel()
    microtasks,           \* FIFO of continuations whose promise is already settled
    itemsSent,            \* stream items delivered so far (bounded by budget.items)
    clients,              \* Map sessionId -> Set object (its id), 0 = absent
    members,              \* the content of each Set object
    socket,               \* the WebSocket connections: readyState, the session and the
                          \* Set captured by its listeners, the messages sent to it,
                          \* and the code of the close() the server called on it
    broadcasts,           \* the payloads handed to broadcast() by the latest step,
                          \* with the session id they were addressed to
    response              \* what the call made by the latest step returned or threw;
                          \* "none" when the latest step was not the return of a call

vars == <<budget, maxConcurrentAgents, sessions, session, activeStreams, activeAgentCount,
          slotQueue, run, removal, microtasks, itemsSent, clients, members, socket,
          broadcasts, response>>

\* ---- values
NoSession == [status |-> "none", threadId |-> 0, result |-> <<>>,
              events |-> <<>>, error |-> "null"]
NoRun     == [pc |-> "none", sid |-> 0, isHint |-> FALSE, cancelled |-> FALSE,
              afterReturn |-> FALSE]
NoBroadcast == [sid |-> 0, payloads |-> <<>>]
NoResponse == [op |-> "none", sid |-> 0, code |-> "none"]
NoRemoval == [pc |-> "none", sid |-> 0, ctl |-> 0]
NoSocket  == [readyState |-> "none", sid |-> 0, set |-> 0, inbox |-> <<>>, closeCode |-> 0]

StructuredTexts == {"solved", "awaiting_hint", "failed"}
Texts == StructuredTexts \cup {"plain"}

\* The ThreadEvent values the engine stream may yield.
ThreadEvents ==
    {[type |-> "thread.started", thread_id |-> t, text |-> "", item |-> ""] : t \in ThreadIds}
    \cup {[type |-> ty, thread_id |-> 0, text |-> "", item |-> ""] :
            ty \in {"turn.failed", "error"}}
    \cup {[type |-> "item.completed", thread_id |-> 0, text |-> tx, item |-> "agent_message"] :
            tx \in Texts}
    \cup {[type |-> "item.completed", thread_id |-> 0, text |-> "", item |-> "error"]}


\* ---- Session mutators, as functions on an effect e = [s: the Session object,
\* ---- out: the payloads handed to broadcast(), in order]
Eff(s) == [s |-> s, out |-> <<>>]

\* serializeSession (882-900): the projection sent in a snapshot
serializeSession(s) ==
    [status |-> s.status, threadId |-> s.threadId, result |-> s.result,
     error |-> s.error, events |-> s.events]

\* broadcastSnapshot (870-880)
broadcastSnapshot(e) ==
    [e EXCEPT !.out = Append(@, [type |-> "snapshot", session |-> serializeSession(e.s)])]

\* Faulty variant of publishEvent: the log is replaced by the new event
publishEventReplacing(e, level, message) ==
    LET event == [level |-> level, message |-> message]
    IN  [s |-> [e.s EXCEPT !.events = <<event>>],
         out |-> Append(e.out, [type |-> "event", event |-> event])]

\* publishEvent (371-385), for a session present in the Map
publishEvent(e, level, message) ==
    LET event == [level |-> level, message |-> message]
    IN  [s |-> [e.s EXCEPT !.events = Append(@, event)],
         out |-> Append(e.out, [type |-> "event", event |-> event])]

\* updateStatus (394-401), for a session present in the Map
updateStatus(e, status) ==
    [s |-> [e.s EXCEPT !.status = status],
     out |-> Append(e.out, [type |-> "status", status |-> status])]

\* parseAgentStructuredOutput (part_000 286-297): <<>> is null.  A message text is
\* modelled by what it decodes to: "plain" is not a structured output.
parseAgentStructuredOutput(text) ==
    IF text \in StructuredTexts
    THEN <<[inferenceStatus |-> text,
            flag |-> IF text = "solved" THEN "FLAG{test}" ELSE "null"]>>
    ELSE <<>>

\* Faulty variant of handleAgentMessage: the agent_result message is not sent
handleAgentMessageSilent(e, text) ==
    LET parsed == parseAgentStructuredOutput(text)
    IN  IF parsed = <<>>
        THEN publishEvent(e, "info", "Agent response")
        ELSE LET structured == parsed[1]
                 e1 == [e EXCEPT !.s.result = parsed, !.s.error = "null"]
                 level == IF structured.inferenceStatus = "solved" THEN "info"
                          ELSE IF structured.inferenceStatus = "failed" THEN "error"
                          ELSE "warning"
                 e2 == publishEvent(e1, level,
                           "Agent reported status: " \o structured.inferenceStatus)
                 e4 == broadcastSnapshot(e2)
             IN  IF structured.inferenceStatus = "solved"
                 THEN updateStatus(e4, "completed")
                 ELSE updateStatus(e4, "awaiting_hint")

\* handleAgentMessage (780-839)
handleAgentMessage(e, text) ==
    LET parsed == parseAgentStructuredOutput(text)
    IN  IF parsed = <<>>
        THEN publishEvent(e, "info", "Agent response")
        ELSE LET structured == parsed[1]
                 e1 == [e EXCEPT !.s.result = parsed, !.s.error = "null"]
                 level == IF structured.inferenceStatus = "solved" THEN "info"
                          ELSE IF structured.inferenceStatus = "failed" THEN "error"
                          ELSE "warning"
                 e2 == publishEvent(e1, level,
                           "Agent reported status: " \o structured.inferenceStatus)
                 e3 == [e2 EXCEPT !.out = Append(@, [type |-> "agent_result",
                                                     result |-> structured])]
                 e4 == broadcastSnapshot(e3)
             IN  IF structured.inferenceStatus = "solved"
                 THEN updateStatus(e4, "completed")
                 ELSE updateStatus(e4, "awaiting_hint")

\* handleItemEvent (628-717), phase "completed"; the item types kept are the ones
\* that touch more than the event log
handleItemEvent(e, event) ==
    IF event.item = "agent_message" THEN handleAgentMessage(e, event.text)
    ELSE IF event.item = "error"
    THEN updateStatus(publishEvent(e, "error", "Agent reported an error."), "awaiting_hint")
    ELSE e

\* Faulty variant of handleThreadEvent: turn.failed does not record the message
handleThreadEventNoError(e, event) ==
    CASE event.type = "thread.started" ->
            broadcastSnapshot(
                publishEvent([e EXCEPT !.s.threadId = event.thread_id],
                             "info", "Codex thread established."))
      [] event.type = "turn.failed" ->
            updateStatus(publishEvent(e, "error", "Agent turn failed."), "awaiting_hint")
      [] event.type = "item.completed" -> handleItemEvent(e, event)
      [] event.type = "error" ->
            updateStatus(publishEvent(e, "error", "stream error item"), "awaiting_hint")
      [] OTHER -> e

\* handleThreadEvent (558-626)
handleThreadEvent(e, event) ==
    CASE event.type = "thread.started" ->
            broadcastSnapshot(
                publishEvent([e EXCEPT !.s.threadId = event.thread_id],
                             "info", "Codex thread established."))
      [] event.type = "turn.failed" ->
            [updateStatus(publishEvent(e, "error", "Agent turn failed."), "awaiting_hint")
                EXCEPT !.s.error = "turn failed"]
      [] event.type = "item.completed" -> handleItemEvent(e, event)
      [] event.type = "error" ->
            updateStatus(publishEvent(e, "error", "stream error item"), "awaiting_hint")
      [] OTHER -> e


\* broadcast (850-868), called once for each of `payloads` within one step: every
\* OPEN socket of the Set mapped to sid is sent the message, every CLOSING or CLOSED
\* one is deleted from the Set.
broadcast(sid, payloads) ==
    LET set == clients[sid]
    IN  IF set = 0 \/ payloads = <<>>
        THEN [socket |-> socket, members |-> members]
        ELSE [socket |-> [w \in SocketIds |->
                            IF w \in members[set] /\ socket[w].readyState = "OPEN"
                            THEN [socket[w] EXCEPT !.inbox = @ \o payloads]
                            ELSE socket[w]],
              members |-> [members EXCEPT ![set] =
                            {w \in @ : socket[w].readyState = "OPEN"}]]

\* A step's effect e on session sid is stored, and its payloads are what the step
\* handed to broadcast(sid, ...).
commit(sid, e) ==
    /\ session' = [session EXCEPT ![sid] = e.s]
    /\ broadcasts' = IF e.out = <<>> THEN NoBroadcast
                     ELSE [sid |-> sid, payloads |-> e.out]
    /\ socket' = broadcast(sid, e.out).socket
    /\ members' = broadcast(sid, e.out).members
    /\ clients' = clients

\* A step that touches no Session object and broadcasts nothing
noEffect ==
    /\ session' = session
    /\ broadcasts' = NoBroadcast
    /\ UNCHANGED <<clients, members, socket>>

\* ---- the admission semaphore (538-556)

\* Faulty variant of the fast-path test: admits one caller too many
SlotFreeInclusive(count, max) == count <= max

\* acquireAgentSlot, line 539: the fast-path test
SlotFree(count, max) == count < max

\* Faulty variant of the decrement: two permits are returned, the clamp hides it
ReleasedCountTwice(count) == IF count - 2 > 0 THEN count - 2 ELSE 0

\* releaseAgentSlot, line 551
ReleasedCount(count) == IF count - 1 > 0 THEN count - 1 ELSE 0

\* Faulty variant of the dequeue: Array.prototype.pop, the newest waiter first
pop(queue) == [next |-> queue[Len(queue)], rest |-> SubSeq(queue, 1, Len(queue) - 1)]

\* releaseAgentSlot, line 552: Array.prototype.shift
shift(queue) == [next |-> Head(queue), rest |-> Tail(queue)]

RunTask(r)     == [kind |-> "run", id |-> r]
RemovalTask(k) == [kind |-> "removal", id |-> k]

\* Faulty variant of releaseAgentSlot: returns the permit and wakes nobody
releaseWithoutWake(runs, tasks) ==
    /\ activeAgentCount' = ReleasedCount(activeAgentCount)
    /\ slotQueue' = slotQueue
    /\ run' = runs
    /\ microtasks' = tasks

\* releaseAgentSlot (550-556).  `runs` and `tasks` are the values of run and
\* microtasks the calling step has produced so far.  Calling the resolver queues the
\* waiter's continuation; the waiter has not yet incremented activeAgentCount.
releaseAgentSlot(runs, tasks) ==
    /\ activeAgentCount' = ReleasedCount(activeAgentCount)
    /\ IF slotQueue = <<>>
       THEN /\ slotQueue' = slotQueue
            /\ run' = runs
            /\ microtasks' = tasks
       ELSE LET q == shift(slotQueue)
            IN  /\ slotQueue' = q.rest
                /\ run' = [runs EXCEPT ![q.next].pc = "woken"]
                /\ microtasks' = Append(tasks, RunTask(q.next))

\* ---- runAgentSession (404-536)

FreeRuns == {r \in RunIds : run[r].pc = "none" /\ r <= budget.runs}
NewRun   == CHOOSE r \in FreeRuns : \A q \in FreeRuns : r <= q

\* line 408: the run guard test
RunGuardBusy(sid) == activeStreams[sid] # 0

\* lines 408-436 and acquireAgentSlot up to its first suspension, called
\* synchronously by createSession and submitHint.  e is the caller's effect on the
\* session so far (the session is in the Map in both callers).
runAgentSession(sid, isHint, e) ==
    IF RunGuardBusy(sid) \/ (isHint /\ e.s.threadId = 0)
    THEN \* returns at 409, or throws at 420 (the caller discards the promise)
         /\ commit(sid, e)
         /\ UNCHANGED <<run, activeAgentCount, slotQueue, microtasks>>
    ELSE LET queued == activeAgentCount >= maxConcurrentAgents
             e1 == IF queued
                   THEN publishEvent(e, "info",
                            "Agent run queued awaiting available execution slot.")
                   ELSE e
             r  == NewRun
             me == [NoRun EXCEPT !.sid = sid, !.isHint = isHint]
         IN  /\ commit(sid, e1)
             /\ IF SlotFree(activeAgentCount, maxConcurrentAgents)
                THEN /\ activeAgentCount' = activeAgentCount + 1
                     /\ run' = [run EXCEPT ![r] = [me EXCEPT !.pc = "acquired"]]
                     /\ microtasks' = Append(microtasks, RunTask(r))
                     /\ slotQueue' = slotQueue
                ELSE /\ slotQueue' = Append(slotQueue, r)
                     /\ run' = [run EXCEPT ![r] = [me EXCEPT !.pc = "waiting"]]
                     /\ UNCHANGED <<activeAgentCount, microtasks>>

\* lines 454-468: the run takes the session to "running"
beginRun(e, isHint) ==
    LET e1 == updateStatus(e, "running")
        e2 == [e1 EXCEPT !.s.error = "null",
                         !.s.result = IF isHint THEN <<>> ELSE @]
    IN  publishEvent(e2, "info",
            IF isHint THEN "Processing operator hint with Codex agent."
                      ELSE "Starting Codex agent run.")

\* Faulty variant of the inner finally: a status left at running is not corrected
innerFinallyKeepsRunning(e, cancelled) ==
    IF cancelled THEN e ELSE broadcastSnapshot(e)

\* lines 522-532: the inner finally, for a session still in the Map
innerFinally(e, cancelled) ==
    IF cancelled THEN e
    ELSE broadcastSnapshot(IF e.s.status = "running"
                           THEN updateStatus(e, "awaiting_hint") ELSE e)

\* lines 508-521: the catch block, for a session still in the Map
catchBlock(e, cancelled) ==
    IF cancelled THEN e
    ELSE [updateStatus(publishEvent(e, "error", "stream failure"), "awaiting_hint")
            EXCEPT !.s.error = "stream failure"]


\* ---- request handlers.  A handler starts from an I/O callback, so only when no
\* ---- microtask is pending.
Quiescent == microtasks = <<>>

FreshSessionIds == {i \in SessionIds : session[i].status = "none" /\ i <= budget.sessions}

\* Faulty variant of createSession: the initial event is not published
createSessionNoEvent ==
    /\ Quiescent
    /\ FreshSessionIds # {}
    /\ FreeRuns # {}
    /\ LET sid == CHOOSE i \in FreshSessionIds : \A j \in FreshSessionIds : i <= j
           e0  == Eff([NoSession EXCEPT !.status = "pending"])
       IN  /\ sessions' = sessions \cup {sid}
           /\ runAgentSession(sid, FALSE, broadcastSnapshot(e0))
           /\ response' = [op |-> "createSession", sid |-> sid, code |-> "ok"]
    /\ UNCHANGED <<budget, maxConcurrentAgents, activeStreams, removal, itemsSent>>

\* createSession (224-255)
createSession ==
    /\ Quiescent
    /\ FreshSessionIds # {}
    /\ FreeRuns # {}
    /\ LET sid == CHOOSE i \in FreshSessionIds : \A j \in FreshSessionIds : i <= j
           e0  == Eff([NoSession EXCEPT !.status = "pending"])
           e1  == publishEvent(broadcastSnapshot(e0), "info",
                               "Session created and workspace prepared.")
       IN  /\ sessions' = sessions \cup {sid}
           /\ runAgentSession(sid, FALSE, e1)
           /\ response' = [op |-> "createSession", sid |-> sid, code |-> "ok"]
    /\ UNCHANGED <<budget, maxConcurrentAgents, activeStreams, removal, itemsSent>>

\* Faulty variant of the precondition checks: the activeStreams test is missing
hintRejectionNoBusy(sid) ==
    IF sid \notin sessions THEN "SESSION_NOT_FOUND"
    ELSE IF session[sid].threadId = 0 THEN "SESSION_THREAD_UNAVAILABLE"
    ELSE "ok"

\* submitHint (326-345): the error code thrown, or "ok"
hintRejection(sid) ==
    IF sid \notin sessions THEN "SESSION_NOT_FOUND"
    ELSE IF session[sid].threadId = 0 THEN "SESSION_THREAD_UNAVAILABLE"
    ELSE IF activeStreams[sid] # 0 THEN "SESSION_BUSY"
    ELSE "ok"

\* Faulty variant of submitHint: the result of the previous run is kept
submitHintKeepResult(sid) ==
    /\ Quiescent
    /\ response' = [op |-> "submitHint", sid |-> sid, code |-> hintRejection(sid)]
    /\ IF hintRejection(sid) # "ok"
       THEN /\ noEffect
            /\ UNCHANGED <<run, activeAgentCount, slotQueue, microtasks>>
       ELSE /\ FreeRuns # {}
            /\ LET e1 == publishEvent(Eff(session[sid]), "task", "Operator hint received.")
                   e2 == updateStatus(e1, "pending")
               IN  runAgentSession(sid, TRUE, e2)
    /\ UNCHANGED <<budget, maxConcurrentAgents, sessions, activeStreams, removal, itemsSent>>

\* submitHint (325-363)
submitHint(sid) ==
    /\ Quiescent
    /\ response' = [op |-> "submitHint", sid |-> sid, code |-> hintRejection(sid)]
    /\ IF hintRejection(sid) # "ok"
       THEN /\ noEffect
            /\ UNCHANGED <<run, activeAgentCount, slotQueue, microtasks>>
       ELSE /\ FreeRuns # {}
            /\ LET e1 == publishEvent(Eff(session[sid]), "task", "Operator hint received.")
                   e2 == updateStatus(e1, "pending")
                   e3 == [e2 EXCEPT !.s.result = <<>>]
               IN  runAgentSession(sid, TRUE, e3)
    /\ UNCHANGED <<budget, maxConcurrentAgents, sessions, activeStreams, removal, itemsSent>>

\* WebSocket.close(code): an OPEN socket starts the closing handshake
close(s, code) ==
    IF s.readyState = "OPEN" THEN [s EXCEPT !.readyState = "CLOSING", !.closeCode = code]
    ELSE s

\* removeSession (272-291): the part after the controller has been dealt with
removeRest(sid) ==
    IF sid \notin sessions
    THEN /\ response' = [op |-> "removeSession", sid |-> sid, code |-> "false"]
         /\ noEffect
         /\ UNCHANGED sessions
    ELSE LET e   == broadcastSnapshot([Eff(session[sid]) EXCEPT !.s.status = "cancelled"])
             b   == broadcast(sid, e.out)
             set == clients[sid]
         IN  /\ session' = [session EXCEPT ![sid] = e.s]
             /\ broadcasts' = [sid |-> sid, payloads |-> e.out]
             /\ sessions' = sessions \ {sid}
             /\ members' = b.members
             /\ socket' = [w \in SocketIds |->
                             IF set # 0 /\ w \in b.members[set] THEN close(b.socket[w], 1000)
                             ELSE b.socket[w]]
             /\ clients' = [clients EXCEPT ![sid] = 0]
         /\ response' = [op |-> "removeSession", sid |-> sid, code |-> "true"]

FreeRemovals == {k \in RemovalIds : removal[k].pc = "none"}

\* removeSession (261-292), up to its first suspension.  With a controller
\* registered it calls controller.cancel(), which sets the run's `cancelled` and
\* awaits events.return(); the generator serves that request after the pump's
\* pending next().
removeSession(sid) ==
    /\ Quiescent
    /\ IF activeStreams[sid] # 0
       THEN /\ FreeRemovals # {}
            /\ LET k == CHOOSE k \in FreeRemovals : TRUE
                   c == activeStreams[sid]
               IN  /\ removal' = [removal EXCEPT ![k] = [pc |-> "return", sid |-> sid, ctl |-> c]]
                   /\ run' = [run EXCEPT ![c].cancelled = TRUE]
            /\ noEffect
            /\ UNCHANGED sessions
            /\ response' = NoResponse
       ELSE /\ removeRest(sid)
            /\ UNCHANGED <<removal, run>>
    /\ UNCHANGED <<budget, maxConcurrentAgents, activeStreams, activeAgentCount, slotQueue,
                   microtasks, itemsSent>>


\* ---- continuations run from the microtask queue, in FIFO order

IsHead(task) == microtasks # <<>> /\ Head(microtasks) = task

\* line 547: a waiter resolved by releaseAgentSlot takes its permit, and
\* acquireAgentSlot returns (the caller's continuation is a further microtask)
resumeWaiter(r) ==
    /\ IsHead(RunTask(r))
    /\ run[r].pc = "woken"
    /\ activeAgentCount' = activeAgentCount + 1
    /\ run' = [run EXCEPT ![r].pc = "acquired"]
    /\ microtasks' = Append(Tail(microtasks), RunTask(r))
    /\ UNCHANGED <<budget, maxConcurrentAgents, sessions, activeStreams, slotQueue,
                   removal, itemsSent>>
    /\ noEffect
    /\ response' = NoResponse

\* Faulty variant of afterAcquire: the return for a vanished session is outside the
\* try, so the permit is kept
afterAcquireLeak(r) ==
    /\ IsHead(RunTask(r))
    /\ run[r].pc = "acquired"
    /\ LET sid == run[r].sid
       IN  IF sid \notin sessions
           THEN /\ run' = [run EXCEPT ![r].pc = "done"]
                /\ microtasks' = Tail(microtasks)
                /\ noEffect
                /\ UNCHANGED <<activeAgentCount, slotQueue>>
           ELSE IF run[r].isHint
           THEN /\ commit(sid, beginRun(Eff(session[sid]), TRUE))
                /\ run' = [run EXCEPT ![r].pc = "runStreamed"]
                /\ microtasks' = Tail(microtasks)
                /\ UNCHANGED <<activeAgentCount, slotQueue>>
           ELSE /\ run' = [run EXCEPT ![r].pc = "prompt"]
                /\ microtasks' = Append(Tail(microtasks), RunTask(r))
                /\ noEffect
                /\ UNCHANGED <<activeAgentCount, slotQueue>>
    /\ UNCHANGED <<budget, maxConcurrentAgents, sessions, activeStreams, removal, itemsSent>>
    /\ response' = NoResponse

\* lines 438-452: after `await this.acquireAgentSlot()`
afterAcquire(r) ==
    /\ IsHead(RunTask(r))
    /\ run[r].pc = "acquired"
    /\ LET sid == run[r].sid
       IN  IF sid \notin sessions
           THEN \* line 441, then the outer finally
                /\ releaseAgentSlot([run EXCEPT ![r].pc = "done"], Tail(microtasks))
                /\ noEffect
           ELSE IF run[r].isHint
           THEN \* buildHintPrompt is synchronous: on to 454-480
                /\ commit(sid, beginRun(Eff(session[sid]), TRUE))
                /\ run' = [run EXCEPT ![r].pc = "runStreamed"]
                /\ microtasks' = Tail(microtasks)
                /\ UNCHANGED <<activeAgentCount, slotQueue>>
           ELSE \* `await reqPrompt(...)`: reqPrompt settles without I/O
                /\ run' = [run EXCEPT ![r].pc = "prompt"]
                /\ microtasks' = Append(Tail(microtasks), RunTask(r))
                /\ noEffect
                /\ UNCHANGED <<activeAgentCount, slotQueue>>
    /\ UNCHANGED <<budget, maxConcurrentAgents, sessions, activeStreams, removal, itemsSent>>
    /\ response' = NoResponse

\* lines 454-480 of an initial run: after `await reqPrompt(...)`
afterPrompt(r) ==
    /\ IsHead(RunTask(r))
    /\ run[r].pc = "prompt"
    /\ LET sid == run[r].sid
       IN  IF sid \notin sessions
           THEN \* updateStatus throws (391); the outer finally releases
                /\ releaseAgentSlot([run EXCEPT ![r].pc = "failed"], Tail(microtasks))
                /\ noEffect
           ELSE /\ commit(sid, beginRun(Eff(session[sid]), FALSE))
                /\ run' = [run EXCEPT ![r].pc = "runStreamed"]
                /\ microtasks' = Tail(microtasks)
                /\ UNCHANGED <<activeAgentCount, slotQueue>>
    /\ UNCHANGED <<budget, maxConcurrentAgents, sessions, activeStreams, removal, itemsSent>>
    /\ response' = NoResponse

\* controller.cancel (485-494) returns after `await events.return()`
cancelReturned(k) ==
    /\ IsHead(RemovalTask(k))
    /\ removal[k].pc = "cancel"
    /\ removal' = [removal EXCEPT ![k].pc = "resume"]
    /\ microtasks' = Append(Tail(microtasks), RemovalTask(k))
    /\ UNCHANGED <<budget, maxConcurrentAgents, sessions, activeStreams,
                   activeAgentCount, slotQueue, run, itemsSent>>
    /\ noEffect
    /\ response' = NoResponse

\* removeSession (269-291): after `await controller.cancel()`
removeSessionResumed(k) ==
    /\ IsHead(RemovalTask(k))
    /\ removal[k].pc = "resume"
    /\ activeStreams' = [activeStreams EXCEPT ![removal[k].sid] = 0]
    /\ removeRest(removal[k].sid)
    /\ removal' = [removal EXCEPT ![k] = NoRemoval]
    /\ microtasks' = Tail(microtasks)
    /\ UNCHANGED <<budget, maxConcurrentAgents, activeAgentCount, slotQueue, run, itemsSent>>

\* ---- the engine: completions of runStreamed and of the stream's next()/return()

\* lines 480-500: runStreamed resolved; the controller is registered and the pump
\* asks for the first item
runStreamedResolved(r) ==
    /\ Quiescent
    /\ run[r].pc = "runStreamed"
    /\ activeStreams' = [activeStreams EXCEPT ![run[r].sid] = r]
    /\ run' = [run EXCEPT ![r].pc = "streaming"]
    /\ UNCHANGED <<budget, maxConcurrentAgents, sessions, activeAgentCount, slotQueue,
                   removal, microtasks, itemsSent>>
    /\ noEffect
    /\ response' = NoResponse

\* Faulty variant of the rejection path: no outer finally, the permit is kept
runStreamedRejectedLeak(r) ==
    /\ Quiescent
    /\ run[r].pc = "runStreamed"
    /\ run' = [run EXCEPT ![r].pc = "failed"]
    /\ UNCHANGED <<budget, maxConcurrentAgents, sessions, activeStreams, removal,
                   itemsSent, activeAgentCount, slotQueue, microtasks>>
    /\ noEffect
    /\ response' = NoResponse

\* runStreamed rejected: nothing catches it before the outer finally (533-535)
runStreamedRejected(r) ==
    /\ Quiescent
    /\ run[r].pc = "runStreamed"
    /\ releaseAgentSlot([run EXCEPT ![r].pc = "failed"], microtasks)
    /\ UNCHANGED <<budget, maxConcurrentAgents, sessions, activeStreams, removal,
                   itemsSent>>
    /\ noEffect
    /\ response' = NoResponse

\* the cancel() calls waiting for the generator of run r, in call order
ReturnTasks(r) ==
    LET Waits(k) == removal[k].pc = "return" /\ removal[k].ctl = r
    IN  [i \in 1..Cardinality({k \in RemovalIds : Waits(k)}) |->
            RemovalTask(CHOOSE k \in RemovalIds :
                /\ Waits(k)
                /\ Cardinality({j \in RemovalIds : Waits(j) /\ j < k}) = i - 1)]

\* Faulty variant of the finally blocks: the permit is released, the marker is left
pumpExitKeepsMarker(r, e, cancelled) ==
    LET sid == run[r].sid
    IN  /\ activeStreams' = activeStreams
        /\ IF sid \in sessions THEN commit(sid, innerFinally(e, cancelled))
                              ELSE noEffect
        /\ removal' = [k \in RemovalIds |->
                         IF removal[k].pc = "return" /\ removal[k].ctl = r
                         THEN [removal[k] EXCEPT !.pc = "cancel"] ELSE removal[k]]
        /\ releaseAgentSlot([run EXCEPT ![r].pc = "done", ![r].cancelled = FALSE,
                                       ![r].afterReturn = FALSE],
                            ReturnTasks(r))

\* lines 522-535: both finally blocks.  e is the effect on the session made by the
\* step so far.  The generator is finished, so pending events.return() calls settle.
\* The run's record is reduced to its outcome once it has returned.
pumpExit(r, e, cancelled) ==
    LET sid == run[r].sid
    IN  /\ activeStreams' = [activeStreams EXCEPT ![sid] = 0]
        /\ IF sid \in sessions THEN commit(sid, innerFinally(e, cancelled))
                              ELSE noEffect
        /\ removal' = [k \in RemovalIds |->
                         IF removal[k].pc = "return" /\ removal[k].ctl = r
                         THEN [removal[k] EXCEPT !.pc = "cancel"] ELSE removal[k]]
        /\ releaseAgentSlot([run EXCEPT ![r].pc = "done", ![r].cancelled = FALSE,
                                       ![r].afterReturn = FALSE],
                            ReturnTasks(r))

\* lines 500-506: the pump receives an item.  After cancel() the generator may still
\* yield the item it was producing; it then serves the return request.
streamItem(r, event) ==
    /\ Quiescent
    /\ run[r].pc = "streaming"
    /\ ~run[r].afterReturn
    /\ itemsSent < budget.items
    /\ itemsSent' = itemsSent + 1
    /\ LET sid == run[r].sid
       IN  IF sid \notin sessions
           THEN \* 501-503: break, which awaits events.return()
                /\ run' = [run EXCEPT ![r].cancelled = TRUE, ![r].pc = "closing"]
                /\ noEffect
           ELSE /\ commit(sid, handleThreadEvent(Eff(session[sid]), event))
                /\ run' = [run EXCEPT ![r].afterReturn = run[r].cancelled]
    /\ UNCHANGED <<budget, maxConcurrentAgents, sessions, activeStreams, activeAgentCount,
                   slotQueue, removal, microtasks>>
                /\ response' = NoResponse

\* the stream is exhausted (naturally, or because a return request was served)
streamEnd(r) ==
    /\ Quiescent
    /\ run[r].pc = "streaming"
    /\ pumpExit(r, Eff(session[run[r].sid]), run[r].cancelled)
    /\ UNCHANGED <<budget, maxConcurrentAgents, sessions, itemsSent>>
    /\ response' = NoResponse

\* Faulty variant of the rejection of next(): the failed run calls the engine again
streamThrowRetry(r) ==
    /\ Quiescent
    /\ run[r].pc = "streaming"
    /\ IF run[r].cancelled \/ run[r].sid \notin sessions
       THEN pumpExit(r, Eff(session[run[r].sid]), run[r].cancelled)
       ELSE /\ commit(run[r].sid,
                      beginRun(catchBlock(Eff(session[run[r].sid]), FALSE), run[r].isHint))
            /\ activeStreams' = [activeStreams EXCEPT ![run[r].sid] = 0]
            /\ run' = [run EXCEPT ![r].pc = "runStreamed"]
            /\ UNCHANGED <<removal, activeAgentCount, slotQueue, microtasks>>
    /\ UNCHANGED <<budget, maxConcurrentAgents, sessions, itemsSent>>
    /\ response' = NoResponse

\* next() rejects: the catch block (507-521), then the finally blocks
streamThrow(r) ==
    /\ Quiescent
    /\ run[r].pc = "streaming"
    /\ pumpExit(r, catchBlock(Eff(session[run[r].sid]), run[r].cancelled),
                run[r].cancelled)
    /\ UNCHANGED <<budget, maxConcurrentAgents, sessions, itemsSent>>
    /\ response' = NoResponse

\* the events.return() awaited by `break` settles
streamClosed(r) ==
    /\ Quiescent
    /\ run[r].pc = "closing"
    /\ pumpExit(r, Eff(session[run[r].sid]), run[r].cancelled)
    /\ UNCHANGED <<budget, maxConcurrentAgents, sessions, itemsSent>>
    /\ response' = NoResponse

\* ---- subscribers

FreeSockets == {w \in SocketIds : socket[w].readyState = "none" /\ w <= budget.sockets}
FreshSets   == {g \in SetIds : \A w \in SocketIds : socket[w].set # g}

SessionNotFound == [type |-> "error", message |-> "Session not found"]

\* the socket joins the Set mapped to the session (a new Set if none is mapped), its
\* listeners capture that Set, and it is sent a snapshot (302-322)
joinClients(sid, w) ==
    LET set == IF clients[sid] # 0 THEN clients[sid]
               ELSE CHOOSE g \in FreshSets : \A h \in FreshSets : g <= h
        snapshot == broadcastSnapshot(Eff(session[sid])).out
    IN  /\ clients[sid] # 0 \/ FreshSets # {}
        /\ clients' = [clients EXCEPT ![sid] = set]
        /\ members' = [members EXCEPT ![set] = @ \cup {w}]
        /\ socket' = [socket EXCEPT ![w] = [readyState |-> "OPEN", sid |-> sid, set |-> set,
                                             inbox |-> snapshot, closeCode |-> 0]]

\* Faulty variant of registerClient: the session is not looked up
registerClientUnchecked(sid, w) == joinClients(sid, w)

\* registerClient (294-323): a socket for a session that is not in the Map is sent
\* an error message and closed with code 1008, with no listener attached
registerClient(sid, w) ==
    IF sid \notin sessions
    THEN /\ socket' = [socket EXCEPT ![w] = [readyState |-> "CLOSING", sid |-> sid,
                                              set |-> 0, inbox |-> <<SessionNotFound>>,
                                              closeCode |-> 1008]]
         /\ UNCHANGED <<clients, members>>
    ELSE joinClients(sid, w)

\* the upgrade handler (websocket.ts 32-61): 404 for an unknown session, else the
\* request is handed to wss.handleUpgrade with the callback of lines 57-60
upgrade(sid) ==
    /\ Quiescent
    /\ FreeSockets # {}
    /\ IF sid \notin sessions
       THEN /\ UNCHANGED socket
            /\ response' = [op |-> "upgrade", sid |-> sid, code |-> "404"]
       ELSE /\ LET w == CHOOSE w \in FreeSockets : \A v \in FreeSockets : w <= v
               IN  socket' = [socket EXCEPT ![w] = [NoSocket EXCEPT !.readyState = "UPGRADING",
                                                                    !.sid = sid]]
            /\ response' = [op |-> "upgrade", sid |-> sid, code |-> "ok"]
    /\ session' = session
    /\ broadcasts' = NoBroadcast
    /\ UNCHANGED <<budget, maxConcurrentAgents, sessions, activeStreams, activeAgentCount,
                   slotQueue, run, removal, microtasks, itemsSent, clients, members>>

\* the callback given to wss.handleUpgrade (57-60), called by the ws library once the
\* handshake is written: registerClient for the session id the handler had checked.
\* The library decides when; another handler may have run since the check.
connection(w) ==
    /\ Quiescent
    /\ socket[w].readyState = "UPGRADING"
    /\ registerClient(socket[w].sid, w)
    /\ session' = session
    /\ broadcasts' = NoBroadcast
    /\ response' = NoResponse
    /\ UNCHANGED <<budget, maxConcurrentAgents, sessions, activeStreams, activeAgentCount,
                   slotQueue, run, removal, microtasks, itemsSent>>

\* The peer starts the closing handshake or the connection drops: readyState leaves
\* OPEN before any listener of this program runs.
peerCloses(w) ==
    /\ Quiescent
    /\ socket[w].readyState = "OPEN"
    /\ socket' = [socket EXCEPT ![w].readyState = "CLOSING"]
    /\ session' = session
    /\ broadcasts' = NoBroadcast
    /\ response' = NoResponse
    /\ UNCHANGED <<budget, maxConcurrentAgents, sessions, activeStreams, activeAgentCount,
                   slotQueue, run, removal, microtasks, itemsSent, clients, members>>

\* the "error" listener (313-315); the socket is on its way to CLOSED
onError(w) ==
    /\ Quiescent
    /\ socket[w].readyState \in {"OPEN", "CLOSING"}
    /\ socket[w].set # 0
    /\ w \in members[socket[w].set]
    /\ members' = [members EXCEPT ![socket[w].set] = @ \ {w}]
    /\ socket' = [socket EXCEPT ![w].readyState = "CLOSING"]
    /\ session' = session
    /\ broadcasts' = NoBroadcast
    /\ response' = NoResponse
    /\ UNCHANGED <<budget, maxConcurrentAgents, sessions, activeStreams, activeAgentCount,
                   slotQueue, run, removal, microtasks, itemsSent, clients>>

\* the "close" listener (306-311): the socket leaves the Set it joined, and when that
\* Set is empty the session's entry of the Map is deleted.  A closed socket's record
\* keeps only what its listeners captured.
onClose(w) ==
    /\ Quiescent
    /\ socket[w].readyState \in {"OPEN", "CLOSING"}
    /\ socket[w].set # 0
    /\ LET set == socket[w].set
           rest == members[set] \ {w}
       IN  /\ members' = [members EXCEPT ![set] = rest]
           /\ clients' = IF rest = {} THEN [clients EXCEPT ![socket[w].sid] = 0]
                         ELSE clients
    /\ socket' = [socket EXCEPT ![w] = [NoSocket EXCEPT !.readyState = "CLOSED",
                                                        !.sid = socket[w].sid,
                                                        !.set = socket[w].set]]
    /\ session' = session
    /\ broadcasts' = NoBroadcast
    /\ response' = NoResponse
    /\ UNCHANGED <<budget, maxConcurrentAgents, sessions, activeStreams, activeAgentCount,
                   slotQueue, run, removal, microtasks, itemsSent>>

\* ---- the specification

\* The ids callers present: those of the sessions of this behaviour.  An id is
\* unknown to the manager before its session is created and after it is removed.
CallerIds == {i \in SessionIds : i <= budget.sessions}

Init ==
    /\ budget \in Budgets
    /\ maxConcurrentAgents \in 1..MaxAgents
    /\ sessions = {}
    /\ session = [i \in SessionIds |-> NoSession]
    /\ activeStreams = [i \in SessionIds |-> 0]
    /\ activeAgentCount = 0
    /\ slotQueue = <<>>
    /\ run = [r \in RunIds |-> NoRun]
    /\ removal = [k \in RemovalIds |-> NoRemoval]
    /\ microtasks = <<>>
    /\ itemsSent = 0
    /\ clients = [i \in SessionIds |-> 0]
    /\ members = [g \in SetIds |-> {}]
    /\ socket = [w \in SocketIds |-> NoSocket]
    /\ broadcasts = NoBroadcast
    /\ response = NoResponse

Next ==
    \/ createSession
    \/ \E sid \in CallerIds : submitHint(sid)
    \/ \E sid \in CallerIds : removeSession(sid)
    \/ \E r \in RunIds : resumeWaiter(r)
    \/ \E r \in RunIds : afterAcquire(r)
    \/ \E r \in RunIds : afterPrompt(r)
    \/ \E k \in RemovalIds : cancelReturned(k)
    \/ \E k \in RemovalIds : removeSessionResumed(k)
    \/ \E r \in RunIds : runStreamedResolved(r)
    \/ \E r \in RunIds : runStreamedRejected(r)
    \/ \E r \in RunIds, event \in ThreadEvents : streamItem(r, event)
    \/ \E r \in RunIds : streamEnd(r)
    \/ \E r \in RunIds : streamThrow(r)
    \/ \E r \in RunIds : streamClosed(r)
    \/ \E sid \in CallerIds : upgrade(sid)
    \/ \E w \in SocketIds : connection(w)
    \/ \E w \in SocketIds : peerCloses(w)
    \/ \E w \in SocketIds : onError(w)
    \/ \E w \in SocketIds : onClose(w)

Spec == Init /\ [][Next]_vars

\* Fairness: the event loop runs every pending microtask, and the engine completes
\* every call it has accepted (runStreamed resolves, the stream ends, return()
\* completes), so every granted permit is eventually released.
RunProgress(r) ==
    \/ resumeWaiter(r)
    \/ afterAcquire(r)
    \/ afterPrompt(r)
    \/ runStreamedResolved(r)
    \/ streamEnd(r)
    \/ streamClosed(r)

RemovalProgress(k) == cancelReturned(k) \/ removeSessionResumed(k)

FairSpec ==
    /\ Spec
    /\ \A r \in RunIds : WF_vars(RunProgress(r))
    /\ \A k \in RemovalIds : WF_vars(RemovalProgress(k))

\* ---- properties

\* A run is in flight from the guard test at line 408 until its outer finally.
InFlight(r) == run[r].pc \notin {"none", "done", "failed"}

\* A run holds a permit from the increment of activeAgentCount until the release.
Holding(r) == run[r].pc \in {"acquired", "prompt", "runStreamed", "streaming", "closing"}

Exited(r) == run[r].pc \in {"done", "failed"}

QueuedEvent == [level |-> "info",
                message |-> "Agent run queued awaiting available execution slot."]

Has(seq, x) == \E i \in 1..Len(seq) : seq[i] = x

C3_EventuallyGranted ==
    \A r \in RunIds :
        (run[r].pc = "waiting") ~> (Holding(r) \/ Exited(r))

\* C3, the case of the claim: a run that was queued behind another waiter now holds
\* a permit.
C3_GrantedAfterWaiting ==
    \E a, b \in RunIds :
        /\ a < b
        /\ Holding(b)
        /\ Exited(a)
        /\ Has(session[run[a].sid].events, QueuedEvent)
        /\ Has(session[run[b].sid].events, QueuedEvent)

\* Run ids are handed out in the order of the acquireAgentSlot calls, so a < b
\* means a called first.
FifoGrants ==
    \A a, b \in RunIds :
        (a < b /\ (Holding(b) \/ Exited(b))) => (Holding(a) \/ Exited(a))

WakesOldest ==
    (activeAgentCount' < activeAgentCount /\ slotQueue # <<>>)
    => /\ slotQueue' = Tail(slotQueue)
       /\ run'[Head(slotQueue)].pc = "woken"
       /\ \A r \in RunIds :
            (run[r].pc = "waiting" /\ r # Head(slotQueue)) => run'[r].pc = "waiting"

C5_ReleasedOnce ==
    [][ /\ \A r \in RunIds :
            (Holding(r) /\ Exited(r)') => activeAgentCount' = activeAgentCount - 1
        /\ \A r \in RunIds : (~Holding(r) /\ Exited(r)') => Exited(r)
        /\ activeAgentCount' < activeAgentCount
           => Cardinality({r \in RunIds : Holding(r) /\ Exited(r)'}) = 1
      ]_vars

\* C5, the case of the claim: one run has left by an exception and one by a return,
\* and no permit is out.
C5_AllExitsTaken ==
    /\ activeAgentCount = 0
    /\ \E a, b \in RunIds : run[a].pc = "failed" /\ run[b].pc = "done"

\* The edges of the session state machine: creation, pending -> running,
\* running -> awaiting_hint, running -> completed, awaiting_hint -> pending, and
\* any non-terminal status -> cancelled.
StatusEdges ==
    {<<"none", "pending">>, <<"pending", "running">>, <<"running", "awaiting_hint">>,
     <<"running", "completed">>, <<"awaiting_hint", "pending">>}
    \cup {<<st, "cancelled">> : st \in {"pending", "running", "awaiting_hint"}}

\* C6: a session whose status is completed or cancelled keeps that status.
C6_TerminalStatus ==
    [][ \A i \in SessionIds :
            session[i].status \in {"completed", "cancelled"}
            => session'[i].status = session[i].status ]_vars

\* C7: every change of a session's status follows an edge of the state machine.
C7_StatusEdges ==
    [][ \A i \in SessionIds :
            session'[i].status # session[i].status
            => <<session[i].status, session'[i].status>> \in StatusEdges ]_vars

\* The step is a call submitHint(sid, hint): response is set by calls only and is
\* reset by every other step.
HintCall(sid) == response'.op = "submitHint" /\ response'.sid = sid

\* The call changed nothing: no Session object, no run, no admission state, no
\* registry entry, and it handed nothing to broadcast().
HintWithoutEffect ==
    /\ UNCHANGED <<sessions, session, run, activeStreams, activeAgentCount, slotQueue,
                   microtasks, removal, clients, members, socket>>
    /\ broadcasts' = NoBroadcast

\* C8: submitHint on a session whose status is running is rejected and changes
\* nothing.
C8_RunningRejectsHint ==
    [][ \A sid \in SessionIds :
            (HintCall(sid) /\ sid \in sessions /\ session[sid].status = "running")
            => (response'.code # "ok" /\ HintWithoutEffect) ]_vars

\* C9: submitHint on a session whose status is completed fails without starting a
\* run and leaves status, result, threadId and the event log as they were.
C9_CompletedRejectsHint ==
    [][ \A sid \in SessionIds :
            (HintCall(sid) /\ sid \in sessions /\ session[sid].status = "completed")
            => (response'.code # "ok" /\ run' = run /\ session'[sid] = session[sid]) ]_vars

\* C10: submitHint fails with SESSION_NOT_FOUND for an unknown id, with
\* SESSION_THREAD_UNAVAILABLE for a session without threadId, and with SESSION_BUSY
\* for a session with a thread and an activeStreams entry; in each case nothing is
\* mutated, nothing is broadcast and no run is started.
C10_PreconditionErrors ==
    [][ \A sid \in SessionIds :
            HintCall(sid) =>
                /\ sid \notin sessions
                   => (response'.code = "SESSION_NOT_FOUND" /\ HintWithoutEffect)
                /\ (sid \in sessions /\ session[sid].threadId = 0)
                   => (response'.code = "SESSION_THREAD_UNAVAILABLE" /\ HintWithoutEffect)
                /\ (sid \in sessions /\ session[sid].threadId # 0 /\ activeStreams[sid] # 0)
                   => (response'.code = "SESSION_BUSY" /\ HintWithoutEffect) ]_vars

\* C10, the case of the claim: a hint has just been refused as SESSION_BUSY, for a
\* session whose run is streaming on an established thread.
C10_BusyRefused ==
    \E sid \in sessions :
        /\ response = [op |-> "submitHint", sid |-> sid, code |-> "SESSION_BUSY"]
        /\ session[sid].threadId # 0
        /\ activeStreams[sid] # 0
        /\ run[activeStreams[sid]].pc = "streaming"

\* The log entry handleAgentMessage writes for a structured output that is neither
\* solved nor failed.
HintWanted == [level |-> "warning", message |-> "Agent reported status: awaiting_hint"]

\* C11, as stated: submitHint on a session with status awaiting_hint and a thread
\* is accepted, sets status pending and sets result to null.
C11_AwaitingHintAccepts ==
    [][ \A sid \in SessionIds :
            (HintCall(sid) /\ sid \in sessions /\ session[sid].status = "awaiting_hint"
                /\ session[sid].threadId # 0)
            => (response'.code = "ok" /\ session'[sid].status = "pending"
                /\ session'[sid].result = <<>>) ]_vars

\* C11, amended: submitHint on a session with status awaiting_hint, a thread and no
\* entry in activeStreams is accepted, sets status pending and sets result to null.
C11_IdleAwaitingHintAccepts ==
    [][ \A sid \in SessionIds :
            (HintCall(sid) /\ sid \in sessions /\ session[sid].status = "awaiting_hint"
                /\ session[sid].threadId # 0 /\ activeStreams[sid] = 0)
            => (response'.code = "ok" /\ session'[sid].status = "pending"
                /\ session'[sid].result = <<>>) ]_vars

\* C11, the case of the claim: a hint has just been accepted on a session whose
\* agent had reported awaiting_hint; the status is pending and the result is gone.
C11_HintTaken ==
    \E sid \in sessions :
        /\ response = [op |-> "submitHint", sid |-> sid, code |-> "ok"]
        /\ Has(session[sid].events, HintWanted)
        /\ session[sid].status = "pending"
        /\ session[sid].result = <<>>

\* The step deletes session sid from the Map (removeSession, line 281).
Removed(sid) == sid \in sessions /\ sid \notin sessions'

\* The socket is a subscriber of sid whose connection is open.
OpenSubscriber(w, sid) == socket[w].readyState = "OPEN" /\ socket[w].sid = sid

CancelledSnapshot(sid) ==
    [type |-> "snapshot",
     session |-> serializeSession([session[sid] EXCEPT !.status = "cancelled"])]

\* C12: the removeSession that deletes a session sets its status to cancelled, sends
\* every open subscriber a final snapshot with status cancelled, closes it with code
\* 1000 and leaves no Set mapped to the id; the status is written once; a
\* removeSession for an id without session answers false and sends nothing.
C12_RemoveSession ==
    [][ \A sid \in SessionIds :
          /\ Removed(sid) =>
                /\ session'[sid].status = "cancelled"
                /\ clients'[sid] = 0
                /\ \A w \in SocketIds :
                      OpenSubscriber(w, sid) =>
                          /\ socket'[w].inbox = Append(socket[w].inbox, CancelledSnapshot(sid))
                          /\ socket'[w].readyState = "CLOSING"
                          /\ socket'[w].closeCode = 1000
          /\ session[sid].status = "cancelled" => session'[sid] = session[sid]
          /\ (response'.op = "removeSession" /\ response'.sid = sid /\ sid \notin sessions)
             => (response'.code = "false" /\ broadcasts' = NoBroadcast /\ socket' = socket)
      ]_vars

\* removeSession has been called for sid: it is suspended in controller.cancel(), or
\* it has deleted the session.
Cancelling(sid) ==
    \/ session[sid].status = "cancelled"
    \/ \E k \in RemovalIds : removal[k].pc # "none" /\ removal[k].sid = sid

\* C13: once removeSession has been called for a session, every run of that session,
\* holding a permit or queued for one, eventually has released it, and
\* activeAgentCount is then the number of runs that hold a permit.
C13_CancelReleasesPermit ==
    \A sid \in SessionIds :
        Cancelling(sid) ~>
            /\ \A r \in RunIds : run[r].sid = sid => ~InFlight(r)
            /\ activeAgentCount = Cardinality({r \in RunIds : Holding(r)})

\* C13, the case of the claim: a run that was queued for a permit when its session
\* was removed has been granted the permit and has returned it.
C13_QueuedRunCancelled ==
    \E r \in RunIds :
        /\ Exited(r)
        /\ session[run[r].sid].status = "cancelled"
        /\ session[run[r].sid].events[Len(session[run[r].sid].events)] = QueuedEvent
        /\ activeAgentCount = Cardinality({q \in RunIds : Holding(q)})

\* The step is the end of run r's stream (exhausted or failed) without cancellation,
\* for a session that is in the Map.
StreamOver(r) ==
    /\ run[r].pc = "streaming"
    /\ run'[r].pc = "done"
    /\ ~run[r].cancelled
    /\ run[r].sid \in sessions

\* C14: when a run's stream is over without cancellation and the session exists, the
\* run leaves a status other than running (awaiting_hint if it was running) and the
\* last thing it broadcasts is a snapshot of the session.
C14_NotLeftRunning ==
    [][ \A r \in RunIds :
            StreamOver(r) =>
                LET sid == run[r].sid
                IN  /\ session'[sid].status # "running"
                    /\ session[sid].status = "running" => session'[sid].status = "awaiting_hint"
                    /\ broadcasts'.sid = sid
                    /\ broadcasts'.payloads # <<>>
                    /\ broadcasts'.payloads[Len(broadcasts'.payloads)] =
                          [type |-> "snapshot", session |-> serializeSession(session'[sid])]
      ]_vars

\* C14, the case of the claim: a stream has just ended on a session that was still
\* running; the run has returned, the status is awaiting_hint, and the status message
\* and the snapshot have been broadcast.
C14_ForcedAwaitingHint ==
    \E sid \in sessions :
        /\ session[sid].status = "awaiting_hint"
        /\ \E r \in RunIds : run[r].sid = sid /\ run[r].pc = "done"
        /\ broadcasts = [sid |-> sid,
                         payloads |-> <<[type |-> "status", status |-> "awaiting_hint"],
                                        [type |-> "snapshot",
                                         session |-> serializeSession(session[sid])]>>]

TurnFailedEvent == [level |-> "error", message |-> "Agent turn failed."]

\* The step handles a turn.failed item for sid: only that case broadcasts this pair.
TurnFailedItem(sid) ==
    broadcasts' = [sid |-> sid,
                   payloads |-> <<[type |-> "event", event |-> TurnFailedEvent],
                                  [type |-> "status", status |-> "awaiting_hint"]>>]

Last(seq) == seq[Len(seq)]

\* C15: a turn.failed item sets status awaiting_hint and error to the failure message,
\* appends an error-level event and leaves result (and everything else) alone; when
\* the stream then closes (it ends without throwing, so the catch block appends
\* nothing), the session keeps that status, error and result.
C15_TurnFailed ==
    [][ /\ \A sid \in SessionIds :
              TurnFailedItem(sid) =>
                  session'[sid] = [session[sid] EXCEPT
                                      !.status = "awaiting_hint",
                                      !.error = "turn failed",
                                      !.events = Append(@, TurnFailedEvent)]
        /\ \A r \in RunIds :
              (/\ run[r].pc = "streaming" /\ run'[r].pc = "done"
               /\ run[r].sid \in sessions
               /\ session[run[r].sid].events # <<>>
               /\ Last(session[run[r].sid].events) = TurnFailedEvent
               /\ session'[run[r].sid].events = session[run[r].sid].events)
              => /\ session'[run[r].sid] = session[run[r].sid]
                 /\ session[run[r].sid].status = "awaiting_hint"
                 /\ session[run[r].sid].error = "turn failed"
      ]_vars

\* C15, the case of the claim: the stream gave a solved result, then turn.failed, and
\* closed; the run has returned, the result is still there.
C15_FailedAfterResult ==
    \E sid \in sessions :
        /\ session[sid].status = "awaiting_hint"
        /\ session[sid].error = "turn failed"
        /\ session[sid].result # <<>>
        /\ Last(session[sid].events) = TurnFailedEvent
        /\ activeStreams[sid] = 0
        /\ \E r \in RunIds : run[r].sid = sid /\ run[r].pc = "done"

\* The completed agent_message item whose text decodes to a structured output with
\* the given inferenceStatus.
AgentMessage(tx) ==
    [type |-> "item.completed", thread_id |-> 0, text |-> tx, item |-> "agent_message"]

\* C16: handling a completed agent message that parses as a structured result
\* replaces result by the parsed value (flag included), broadcasts an agent_result
\* message carrying it, and sets status completed for solved, awaiting_hint for
\* awaiting_hint and failed.
C16_StructuredResult ==
    [][ \A r \in RunIds, tx \in StructuredTexts :
            (streamItem(r, AgentMessage(tx)) /\ run[r].sid \in sessions) =>
                LET sid == run[r].sid
                    res == [inferenceStatus |-> tx,
                            flag |-> IF tx = "solved" THEN "FLAG{test}" ELSE "null"]
                IN  /\ session'[sid].result = <<res>>
                    /\ broadcasts'.sid = sid
                    /\ Has(broadcasts'.payloads, [type |-> "agent_result", result |-> res])
                    /\ session'[sid].status =
                          IF tx = "solved" THEN "completed" ELSE "awaiting_hint"
      ]_vars

\* C16, the case of the claim: a solved message has just replaced the result of an
\* earlier awaiting_hint message; the status is completed.
C16_SolvedReplaces ==
    \E sid \in sessions :
        /\ Has(session[sid].events, HintWanted)
        /\ session[sid].result = <<[inferenceStatus |-> "solved", flag |-> "FLAG{test}"]>>
        /\ session[sid].status = "completed"
        /\ broadcasts.sid = sid
        /\ Has(broadcasts.payloads,
               [type |-> "agent_result",
                result |-> [inferenceStatus |-> "solved", flag |-> "FLAG{test}"]])

CreatedEvent == [level |-> "info", message |-> "Session created and workspace prepared."]

\* The step is a call createSession that made session sid.
Created(sid) == response'.op = "createSession" /\ response'.sid = sid

\* The call has returned while its run is at most at the admission semaphore.
RunNotStarted(sid) ==
    \E r \in RunIds : run'[r].sid = sid /\ run'[r].pc \in {"acquired", "waiting"}

\* C17, as stated: whatever the admission load, the session createSession returns has
\* status pending, no thread, no result and exactly one event, and the call does not
\* wait for admission or for the run.
C17_OneInitialEvent ==
    [][ \A sid \in SessionIds :
            Created(sid) =>
                /\ session'[sid] = [NoSession EXCEPT !.status = "pending",
                                                    !.events = <<CreatedEvent>>]
                /\ RunNotStarted(sid) ]_vars

\* C17, amended: the session createSession returns has status pending, no thread and
\* no result; its log is the initial event alone when a permit is free, and the
\* initial event followed by the queued event when all permits are taken; the call
\* does not wait for admission or for the run.
C17_CreatedPending ==
    [][ \A sid \in SessionIds :
            Created(sid) =>
                /\ session'[sid] =
                      [NoSession EXCEPT
                          !.status = "pending",
                          !.events = IF activeAgentCount >= maxConcurrentAgents
                                     THEN <<CreatedEvent, QueuedEvent>>
                                     ELSE <<CreatedEvent>>]
                /\ RunNotStarted(sid) ]_vars

\* C17, the case of the claim: createSession has just returned a session while all
\* permits were taken; its run is queued.
C17_CreatedUnderLoad ==
    \E sid \in sessions :
        /\ response = [op |-> "createSession", sid |-> sid, code |-> "ok"]
        /\ activeAgentCount = maxConcurrentAgents
        /\ session[sid].status = "pending"
        /\ session[sid].events = <<CreatedEvent, QueuedEvent>>
        /\ \E r \in RunIds : run[r].sid = sid /\ run[r].pc = "waiting"

\* The events a subscriber has been told of: those of the snapshot it was sent
\* first, then those of the event messages, in the order received.
RECURSIVE EventsOf(_)
EventsOf(msgs) ==
    IF msgs = <<>> THEN <<>>
    ELSE IF Head(msgs).type = "event" THEN <<Head(msgs).event>> \o EventsOf(Tail(msgs))
    ELSE EventsOf(Tail(msgs))

\* C18: an open subscriber of an existing session was first sent a snapshot, and the
\* events of that snapshot followed by the events of the event messages it was sent
\* since are exactly the session's log: the k events at registration, then each
\* later event once, in append order.
C18_LateJoiner ==
    \A w \in SocketIds :
        (socket[w].readyState = "OPEN" /\ socket[w].sid \in sessions) =>
            /\ socket[w].inbox # <<>>
            /\ socket[w].inbox[1].type = "snapshot"
            /\ socket[w].inbox[1].session.events \o EventsOf(Tail(socket[w].inbox))
                  = session[socket[w].sid].events

IsPrefix(a, b) == Len(a) <= Len(b) /\ SubSeq(b, 1, Len(a)) = a

\* C19: the event log of a session is append-only: in every step the log before is a
\* prefix of the log after.
C19_AppendOnly ==
    [][ \A sid \in SessionIds :
            IsPrefix(session[sid].events, session'[sid].events) ]_vars

\* C19, the case of the claim: a log that has grown through creation, a run, stream
\* items and a hint.
C19_LongLog ==
    \E sid \in sessions :
        /\ Len(session[sid].events) >= 5
        /\ session[sid].events[1] = CreatedEvent
        /\ Has(session[sid].events, [level |-> "task", message |-> "Operator hint received."])

\* C20: once a session's threadId is non-null no step changes it.
C20_ThreadIdFixed ==
    [][ \A sid \in SessionIds :
            session[sid].threadId # 0 => session'[sid].threadId = session[sid].threadId
      ]_vars

\* The promise returned by runAgentSession has rejected: the invocation left through
\* an exception that no catch block took (the outer try has only a finally).
Rejected(r) == run[r].pc = "failed"

\* C21: the promise returned by runAgentSession never rejects, whatever the
\* interleaving with removeSession and whatever the engine's runStreamed call does.
C21_NeverRejects == \A r \in RunIds : ~Rejected(r)

\* The stream items by which the engine reports a failure: a failed turn, a
\* stream-level error, an item of type error.
FailureItems ==
    {ev \in ThreadEvents :
        \/ ev.type \in {"turn.failed", "error"}
        \/ (ev.type = "item.completed" /\ ev.item = "error")}

\* The step is an engine failure of a run of sid, a session in the Map: the pump
\* handles a failure item, or next() rejects on a run that was not cancelled.
EngineFailure(sid) ==
    /\ sid \in sessions
    /\ \E r \in RunIds :
          /\ run[r].sid = sid
          /\ \/ \E ev \in FailureItems : streamItem(r, ev)
             \/ (streamThrow(r) /\ ~run[r].cancelled)

\* C22: every engine failure of a run leaves the session with status awaiting_hint,
\* one more event, of level error, and a non-null error field.
C22_FailureRecorded ==
    [][ \A sid \in SessionIds :
            EngineFailure(sid) =>
                /\ session'[sid].status = "awaiting_hint"
                /\ Len(session'[sid].events) = Len(session[sid].events) + 1
                /\ Last(session'[sid].events).level = "error"
                /\ session'[sid].error # "null" ]_vars

\* What a subscriber knows of a session after it has been sent msgs, knowing view
\* before: a snapshot replaces the view, an event message adds to the log, a status
\* message sets the status, an agent_result message sets the result.
RECURSIVE Told(_, _)
Told(view, msgs) ==
    IF msgs = <<>> THEN view
    ELSE LET m == Head(msgs)
             next == CASE m.type = "snapshot" -> m.session
                       [] m.type = "event" -> [view EXCEPT !.events = Append(@, m.event)]
                       [] m.type = "status" -> [view EXCEPT !.status = m.status]
                       [] m.type = "agent_result" -> [view EXCEPT !.result = <<m.result>>]
                       [] OTHER -> view
         IN  Told(next, Tail(msgs))

\* C23: every step that appends an event or changes status, result, error or
\* threadId of a session in the Map hands to broadcast() messages that reflect it: a
\* subscriber that knew the session before the step knows it after the step.
C23_BroadcastReflects ==
    [][ \A sid \in SessionIds :
            (sid \in sessions /\ session'[sid] # session[sid]) =>
                /\ broadcasts'.sid = sid
                /\ Told(serializeSession(session[sid]), broadcasts'.payloads)
                      = serializeSession(session'[sid]) ]_vars

\* removeSession has invoked cancel() of the controller of run r and is suspended in
\* it: the run's `cancelled` is set, the stream has not terminated yet.
CancelSignalled(r) ==
    \E k \in RemovalIds : removal[k].pc = "return" /\ removal[k].ctl = r

\* C24: from the moment cancel() has been invoked on the controller of a run until
\* the stream has terminated, no step changes the session of that run: no item is
\* handled, and the termination (an end or a rejection) records nothing.
C24_NoItemAfterCancel ==
    [][ \A r \in RunIds :
            CancelSignalled(r) => session'[run[r].sid] = session[run[r].sid] ]_vars

\* The step removes the activeStreams entry of sid, which run r had registered.
MarkerRemoved(sid, r) == activeStreams[sid] = r /\ r # 0 /\ activeStreams'[sid] = 0

\* The step is the exit of run r through its finally blocks.
ExitOf(r) == Holding(r) /\ Exited(r)'

\* C25: the activeStreams entry of a session is removed only by the exit of the run
\* that registered it; no step of removeSession removes an entry.
C25_MarkerClearedByOwner ==
    [][ \A sid \in SessionIds, r \in RunIds :
            MarkerRemoved(sid, r) => (ExitOf(r) /\ run[r].sid = sid) ]_vars

\* Run r is in the wait queue of acquireAgentSlot (suspended, or resolved and not
\* yet resumed).
Waiting(r) == run[r].pc \in {"waiting", "woken"}

\* The runAgentSession invocations of sid that wait for a permit or hold one.
Admitting(sid) == {r \in RunIds : run[r].sid = sid /\ (Waiting(r) \/ Holding(r))}

\* C26: for every session at most one runAgentSession invocation is in the wait
\* queue or holds a permit.
C26_OnePermitPerSession ==
    \A sid \in SessionIds : Cardinality(Admitting(sid)) <= 1

StreamFailureEvent == [level |-> "error", message |-> "stream failure"]

\* C27: the marker is cleared before the permit is released: in every state the run
\* whose controller is in activeStreams still holds its permit, so no run has
\* released its permit while its marker is set.
C27_MarkerClearedFirst ==
    \A sid \in SessionIds :
        activeStreams[sid] # 0 =>
            /\ Holding(activeStreams[sid])
            /\ run[activeStreams[sid]].sid = sid

\* C27, the case of the claim: a run that had registered its stream has left through
\* a stream error; its permit is back and the session has no marker.
C27_ExitedAfterStreamError ==
    \E r \in RunIds :
        /\ run[r].pc = "done"
        /\ run[r].sid \in sessions
        /\ Last(session[run[r].sid].events) = StreamFailureEvent
        /\ activeStreams[run[r].sid] = 0
        /\ activeAgentCount = 0

\* C28: in no state is a session that was removed from the Map the session of a run
\* that holds a permit.
C28_RemovedAfterRelease ==
    \A r \in RunIds : Holding(r) => run[r].sid \in sessions

RECURSIVE Count(_, _)
Count(seq, S) ==
    IF seq = <<>> THEN 0
    ELSE (IF Head(seq) \in S THEN 1 ELSE 0) + Count(Tail(seq), S)

\* The log entries written at line 462, in the stretch that calls startThread or
\* resumeThread and runStreamed (462-480): one per engine call.
StartEvents ==
    {[level |-> "info", message |-> "Starting Codex agent run."],
     [level |-> "info", message |-> "Processing operator hint with Codex agent."]}

\* The log entry written by an accepted submitHint (line 349).
HintEvent == [level |-> "task", message |-> "Operator hint received."]

EngineCalls(sid)   == Count(session[sid].events, StartEvents)
AcceptedHints(sid) == Count(session[sid].events, {HintEvent})

\* The step makes a new runAgentSession invocation.
RunMade == \E r \in RunIds : run[r].pc = "none" /\ run'[r].pc # "none"

\* The step issues an engine call for run r.
EngineCalled(r) == run[r].pc # "runStreamed" /\ run'[r].pc = "runStreamed"

\* C29: for every session the engine calls issued are at most one more than the
\* accepted hints; a run is made only by createSession or by an accepted
\* submitHint, and a run calls the engine once, coming from admission: a run that
\* has streamed or failed never calls it again.
C29_NoAutoRetry ==
    /\ [](\A sid \in SessionIds : EngineCalls(sid) <= 1 + AcceptedHints(sid))
    /\ [][ /\ RunMade => (response'.op \in {"createSession", "submitHint"}
                          /\ response'.code = "ok")
           /\ \A r \in RunIds : EngineCalled(r) => run[r].pc \in {"acquired", "prompt"}
       ]_vars

\* C29, the case of the claim: a run failed on a stream error, a hint was accepted
\* after it, and the engine has been called a second time.
C29_RetriedByHint ==
    \E sid \in sessions :
        /\ Has(session[sid].events, StreamFailureEvent)
        /\ EngineCalls(sid) = 2
        /\ AcceptedHints(sid) = 1
        /\ \E r \in RunIds : run[r].sid = sid /\ run[r].isHint /\ run[r].pc = "runStreamed"

\* C30: activeAgentCount is the number of invocations that have been granted a permit
\* by acquireAgentSlot and have not yet called releaseAgentSlot; it is never
\* negative, and every releaseAgentSlot finds it positive, so Math.max(0, ...) never
\* replaces the decremented value.
C30_ExactAccounting ==
    /\ [](/\ activeAgentCount = Cardinality({r \in RunIds : Holding(r)})
          /\ activeAgentCount >= 0)
    /\ [][ \A r \in RunIds :
              ExitOf(r) => /\ activeAgentCount >= 1
                           /\ activeAgentCount' = activeAgentCount - 1 ]_vars

\* C30, the case of the claim: two runs hold the two permits, one of them after
\* having waited in the queue for the release of a run that has returned.
C30_TwoHeldAfterRelease ==
    \E a, b, c \in RunIds :
        /\ a # b
        /\ Holding(a) /\ Holding(b)
        /\ Exited(c)
        /\ Has(session[run[b].sid].events, QueuedEvent)
        /\ activeAgentCount = 2

\* C31: whenever the status of a session in the Map is running, a runAgentSession
\* invocation of that session holds a permit.
C31_RunningHoldsPermit ==
    \A sid \in sessions :
        session[sid].status = "running" =>
            \E r \in RunIds : run[r].sid = sid /\ Holding(r)

\* The step is the call registerClient(sid, w) made by the handleUpgrade callback.
RegisterCall(sid, w) == connection(w) /\ socket[w].sid = sid

\* C32: every session id with a Set in the clients Map is a session in the store;
\* registerClient for a session that is not in the store (never created, or removed
\* since the upgrade handler looked it up) sends the error message, closes the
\* socket with code 1008 and adds nothing to the registry.
C32_RegistryOfExistingSessions ==
    /\ [](\A sid \in SessionIds : clients[sid] # 0 => sid \in sessions)
    /\ [][ \A sid \in SessionIds, w \in SocketIds :
              (RegisterCall(sid, w) /\ sid \notin sessions) =>
                  /\ socket'[w].closeCode = 1008
                  /\ socket'[w].readyState = "CLOSING"
                  /\ socket'[w].inbox = <<SessionNotFound>>
                  /\ clients' = clients
                  /\ members' = members
                  /\ \A g \in SetIds : w \notin members'[g] ]_vars

\* C32, the case of the claim: the session was removed between the upgrade handler's
\* lookup and the registration; the socket has been closed with 1008 and the removed
\* session has no Set, while an earlier subscriber was closed with 1000.
C32_RefusedAfterRemoval ==
    \E w, v \in SocketIds, sid \in SessionIds :
        /\ socket[w].sid = sid /\ socket[w].closeCode = 1008
        /\ socket[v].sid = sid /\ socket[v].closeCode = 1000
        /\ sid \notin sessions
        /\ session[sid].status = "cancelled"
        /\ clients[sid] = 0
====
